---- MODULE Spec2Model ----
(***************************************************************************)
(* Arachgraph (arachgraph.py): the data held by SpiderChartApp -- the      *)
(* factor list, the sample store, the per-factor slider controls and the   *)
(* two buttons whose enabled state gates the handlers -- and the handlers  *)
(* load_factors, add_sample, save_sample, load_sample and                  *)
(* change_sample_color.  Files are JSON values: a JSON object is a         *)
(* function from its keys, a JSON list a sequence.                         *)
(***************************************************************************)
EXTENDS Integers, Sequences, FiniteSets, TLC

VARIABLES
    factors,          \* self.factors: list of factor objects
    samples,          \* self.samples: insertion-ordered dict, as a sequence of
                      \*   [name, values, color]
    factor_controls,  \* self.factor_controls: factor name -> index of its slider
    sliders,          \* the QSlider widgets in factor_layout, by position
    btn_add_sample,   \* btn_add_sample.isEnabled()
    btn_save_sample,  \* btn_save_sample.isEnabled()
    disk,             \* the sample file written by save_sample (<<>>: none yet)
    saved,            \* history: the factor list and sample save_sample wrote from
    origin,           \* history, one entry per stored sample: the handler that
                      \*   created it and the scores the user gave by position
    last              \* history: the last handler run and how it ended

vars == <<factors, samples, factor_controls, sliders, btn_add_sample,
          btn_save_sample, disk, saved, origin, last>>

-----------------------------------------------------------------------------
(* Bounds of the environment *)

MaxFactors == 2     \* longest factor file offered
MaxSamples == 2     \* number of distinct sample names in a session
CycleLen == 7       \* number of distinct sample names in the palette scenario

AllNames == <<"s1", "s2", "s3", "s4", "s5", "s6", "s7", "s8", "s9">>

FactorNames == {"A", "B"}
Description == "d"

(* Program constants *)
SliderMin == 1
SliderMax == 10
SliderDefault == 5
default_colors == <<"#34a853", "#4285f4", "#fbbc05", "#ea4335", "#9c27b0", "#00bcd4">>

SliderInputs == {3}            \* positions the user drags a slider to
FileScore == [A |-> 7, B |-> 11]   \* the score a sample file gives under each key
FileColors == {"#ffffff"}      \* colors found in sample files
DialogColors == {"#ffffff"}    \* colors picked in the color dialog

-----------------------------------------------------------------------------
(* JSON inputs *)

RECURSIVE SeqsUpTo(_, _)
SeqsUpTo(S, n) ==
    IF n = 0 THEN {<<>>}
    ELSE LET shorter == SeqsUpTo(S, n - 1)
         IN  shorter \cup {Append(s, x) : s \in {t \in shorter : Len(t) = n - 1}, x \in S}

\* Factor files: every list of well-formed records up to maxLen, and the same
\* lists ending in a record that lacks a field.
FactorFileInputs(maxLen, names) ==
    LET good == {[name |-> n, description |-> Description] : n \in names}
        bad == {[name |-> "A"], [description |-> Description]}
    IN  {[kind |-> "cancel"], [kind |-> "unreadable"]}
          \cup {[kind |-> "json", data |-> f] : f \in SeqsUpTo(good, maxLen)}
          \cup {[kind |-> "json", data |-> Append(f, r)] :
                  f \in SeqsUpTo(good, maxLen - 1), r \in bad}

FactorFiles == FactorFileInputs(MaxFactors, FactorNames)
FactorFilesSave == FactorFileInputs(Cardinality(FactorNames), FactorNames)
FactorFilesCycle == FactorFileInputs(Cardinality({"A"}), {"A"})

ValueMaps(keys) == {[k \in K |-> FileScore[k]] : K \in SUBSET keys}

\* Sample files: every key set over keys, and files lacking one required key.
SampleDocs(names, keys) ==
    {[name |-> n, color |-> c, values |-> v] :
        n \in names, c \in FileColors, v \in ValueMaps(keys)}
      \cup {[name |-> n, color |-> c] : n \in names, c \in FileColors}
      \cup {[name |-> n, values |-> [k \in keys |-> FileScore[k]]] : n \in names}
      \cup {[color |-> c, values |-> [k \in keys |-> FileScore[k]]] : c \in FileColors}

AllDocs == SampleDocs({AllNames[i] : i \in 1..Len(AllNames)}, FactorNames)
CycleDocs == SampleDocs({AllNames[i] : i \in 1..Len(AllNames)}, {"A"})

\* The sample files offered: a cancelled dialog, an unreadable file, the files
\* of docs that carry one of the names (or none), and the file on disk.
SampleFileInputs(docs, names) ==
    {[kind |-> "cancel"], [kind |-> "unreadable"]}
        \cup {[kind |-> "json", data |-> d] :
                d \in {e \in docs : "name" \in DOMAIN e => e.name \in names}}
        \cup {[kind |-> "json", data |-> disk[i]] : i \in 1..Len(disk)}

-----------------------------------------------------------------------------
(* Helpers *)

\* the history entry of a handler: how it ended, the sample name it was given
\* and the store size it started from
Done(op, res, arg) == [op |-> op, res |-> res, arg |-> arg, had |-> Len(samples)]

SampleNames(s) == {s[i].name : i \in 1..Len(s)}

\* Names offered to a session of at most k samples: those in the store and the
\* first unused one (sample names matter to the code only through equality).
NameInputs(k) ==
    LET free == {i \in 1..k : AllNames[i] \notin SampleNames(samples)}
    IN  SampleNames(samples)
          \cup {AllNames[i] : i \in {j \in free : \A m \in free : j <= m}}

IndexOf(s, name) == CHOOSE i \in 1..Len(s) : s[i].name = name

\* Python's d[name] = rec on an insertion-ordered dict: a new key goes last,
\* an existing key keeps its place and takes the new value.
DictSet(s, rec) ==
    IF rec.name \in SampleNames(s)
    THEN [s EXCEPT ![IndexOf(s, rec.name)] = rec]
    ELSE Append(s, rec)

\* all("name" in item and "description" in item for item in loaded_factors)
FactorFileValid(loaded_factors) ==
    \A i \in 1..Len(loaded_factors) :
        "name" \in DOMAIN loaded_factors[i] /\ "description" \in DOMAIN loaded_factors[i]

\* _clear_all without the reset of self.samples
_clear_all_keeps_samples ==
    [factors |-> <<>>, samples |-> samples, factor_controls |-> <<>>,
     sliders |-> <<>>, btn_save_sample |-> FALSE, btn_add_sample |-> FALSE]

\* _clear_all: the values it assigns
_clear_all ==
    [factors |-> <<>>, samples |-> <<>>, factor_controls |-> <<>>,
     sliders |-> <<>>, btn_save_sample |-> FALSE, btn_add_sample |-> FALSE]

\* _setup_ui_for_factors: one slider per factor, in order, each at 5;
\* factor_controls[name] is overwritten by a later factor of the same name.
_setup_ui_for_factors(fs) ==
    [sliders |-> [i \in 1..Len(fs) |-> SliderDefault],
     factor_controls |->
        [n \in {fs[i].name : i \in 1..Len(fs)} |->
            CHOOSE i \in 1..Len(fs) :
                /\ fs[i].name = n
                /\ \A j \in 1..Len(fs) : fs[j].name = n => j <= i]]

-----------------------------------------------------------------------------
Init ==
    /\ factors = <<>>
    /\ samples = <<>>
    /\ factor_controls = <<>>
    /\ sliders = <<>>
    /\ btn_add_sample = FALSE
    /\ btn_save_sample = FALSE
    /\ disk = <<>>
    /\ saved = <<>>
    /\ origin = <<>>
    /\ last = Done("init", "ok", "")

load_factors(inp) ==
    IF inp.kind = "cancel"
    THEN UNCHANGED vars
    ELSE IF inp.kind = "unreadable" \/ ~FactorFileValid(inp.data)
    THEN /\ last' = Done("load_factors", "error", "")
         /\ UNCHANGED <<factors, samples, factor_controls, sliders, btn_add_sample,
                        btn_save_sample, disk, saved, origin>>
    ELSE LET cleared == _clear_all
             ui == _setup_ui_for_factors(inp.data)
         IN  /\ samples' = cleared.samples
             /\ origin' = [i \in 1..Len(cleared.samples) |-> origin[i]]
             /\ factors' = inp.data
             /\ sliders' = ui.sliders
             /\ factor_controls' = ui.factor_controls
             /\ btn_save_sample' = cleared.btn_save_sample
             /\ btn_add_sample' = TRUE
             /\ last' = Done("load_factors", "ok", "")
             /\ UNCHANGED <<disk, saved>>

\* The slider of one factor box is dragged to v (QSlider, range 1..10).
slider_setValue(i, v) ==
    /\ i \in 1..Len(sliders)
    /\ v \in SliderMin..SliderMax
    /\ sliders' = [sliders EXCEPT ![i] = v]
    /\ last' = Done("slider_setValue", "ok", "")
    /\ UNCHANGED <<factors, samples, factor_controls, btn_add_sample,
                   btn_save_sample, disk, saved, origin>>

\* NameTaken without the membership test
NameTaken_never(name) == FALSE

\* name in self.samples
NameTaken(name) == name \in SampleNames(samples)

\* [self.factor_controls[f['name']]['slider'].value() for f in self.factors]
SliderValues ==
    [i \in 1..Len(factors) |-> sliders[factor_controls[factors[i].name]]]

\* DefaultColor indexed by the number of samples add_sample created
DefaultColor_added_only ==
    default_colors[(Cardinality({i \in 1..Len(origin) : origin[i].by = "add_sample"})
                      % Len(default_colors)) + 1]

\* default_colors[len(self.samples) % len(default_colors)]
DefaultColor == default_colors[(Len(samples) % Len(default_colors)) + 1]

\* the history entry kept beside a sample written with DictSet
OriginSet(name, entry) ==
    IF name \in SampleNames(samples)
    THEN [origin EXCEPT ![IndexOf(samples, name)] = entry]
    ELSE Append(origin, entry)

add_sample(name) ==
    /\ btn_add_sample
    /\ IF name = ""
       THEN UNCHANGED vars
       ELSE IF NameTaken(name)
       THEN /\ last' = Done("add_sample", "duplicate", "")
            /\ UNCHANGED <<factors, samples, factor_controls, sliders, btn_add_sample,
                           btn_save_sample, disk, saved, origin>>
       ELSE /\ samples' = DictSet(samples,
                            [name |-> name, values |-> SliderValues, color |-> DefaultColor])
            /\ origin' = OriginSet(name, [by |-> "add_sample", given |-> sliders])
            /\ btn_save_sample' = TRUE
            /\ last' = Done("add_sample", "ok", name)
            /\ UNCHANGED <<factors, factor_controls, sliders, btn_add_sample, disk, saved>>

\* {self.factors[i]['name']: val for i, val in enumerate(sample_data['values'])}:
\* a later position with the same factor name overwrites an earlier one.
EncodeValues(fs, values) ==
    [n \in {fs[i].name : i \in 1..Len(values)} |->
        values[CHOOSE i \in 1..Len(values) :
                  /\ fs[i].name = n
                  /\ \A j \in 1..Len(values) : fs[j].name = n => j <= i]]

\* output_data of save_sample
EncodeSample(sample_to_save) ==
    LET sample_data == samples[IndexOf(samples, sample_to_save)]
    IN  [name |-> sample_to_save,
         color |-> sample_data.color,
         values |-> EncodeValues(factors, sample_data.values)]

\* sample_to_save = "": the item dialog was cancelled; written = FALSE: the file
\* dialog was cancelled or the write raised IOError.
save_sample(sample_to_save, written) ==
    /\ btn_save_sample
    /\ UNCHANGED <<factors, samples, factor_controls, sliders, btn_add_sample,
                   btn_save_sample, origin>>
    /\ IF samples = <<>> \/ sample_to_save = ""
       THEN UNCHANGED <<disk, saved, last>>
       ELSE IF ~written
       THEN /\ last' = Done("save_sample", "notwritten", "")
            /\ UNCHANGED <<disk, saved>>
       ELSE /\ disk' = <<EncodeSample(sample_to_save)>>
            /\ saved' = <<[factors |-> factors,
                           sample |-> samples[IndexOf(samples, sample_to_save)]]>>
            /\ last' = Done("save_sample", "ok", sample_to_save)

\* all(k in data for k in ["name", "values", "color"])
SampleFileValid(data) == \A k \in {"name", "values", "color"} : k \in DOMAIN data

\* KeysMatch that tolerates extra keys
KeysMatch_superset(data) ==
    {factors[i].name : i \in 1..Len(factors)} \subseteq DOMAIN data.values

\* set(data['values'].keys()) == {f['name'] for f in self.factors}
KeysMatch(data) == DOMAIN data.values = {factors[i].name : i \in 1..Len(factors)}

\* [data['values'][f['name']] for f in self.factors]
OrderedValues(data) == [i \in 1..Len(factors) |-> data.values[factors[i].name]]

load_sample(inp) ==
    IF factors = <<>>
    THEN /\ last' = Done("load_sample", "nofactors", "")
         /\ UNCHANGED <<factors, samples, factor_controls, sliders, btn_add_sample,
                        btn_save_sample, disk, saved, origin>>
    ELSE IF inp.kind = "cancel"
    THEN UNCHANGED vars
    ELSE IF \/ inp.kind = "unreadable"
            \/ ~SampleFileValid(inp.data)
            \/ ~KeysMatch(inp.data)
    THEN /\ last' = Done("load_sample", "error", "")
         /\ UNCHANGED <<factors, samples, factor_controls, sliders, btn_add_sample,
                        btn_save_sample, disk, saved, origin>>
    ELSE IF NameTaken(inp.data.name)
    THEN /\ last' = Done("load_sample", "duplicate", "")
         /\ UNCHANGED <<factors, samples, factor_controls, sliders, btn_add_sample,
                        btn_save_sample, disk, saved, origin>>
    ELSE /\ samples' = DictSet(samples,
                         [name |-> inp.data.name, values |-> OrderedValues(inp.data),
                          color |-> inp.data.color])
         /\ origin' = OriginSet(inp.data.name,
                         [by |-> "load_sample",
                          given |-> [i \in 1..Len(factors) |->
                                        inp.data.values[factors[i].name]]])
         /\ btn_save_sample' = TRUE
         /\ last' = Done("load_sample", "ok", inp.data.name)
         /\ UNCHANGED <<factors, factor_controls, sliders, btn_add_sample, disk, saved>>

\* SetColor that recolors every sample
SetColor_all(s, sample_name, color_hex) ==
    [i \in 1..Len(s) |-> [s[i] EXCEPT !.color = color_hex]]

\* self.samples[sample_name]['color'] = color_hex
SetColor(s, sample_name, color_hex) ==
    [i \in 1..Len(s) |->
        IF s[i].name = sample_name THEN [s[i] EXCEPT !.color = color_hex] ELSE s[i]]

\* The color button of a listed sample is clicked; valid = FALSE: the color
\* dialog was cancelled.
change_sample_color(sample_name, valid, color_hex) ==
    /\ sample_name \in SampleNames(samples)
    /\ UNCHANGED <<factors, factor_controls, sliders, btn_add_sample,
                   btn_save_sample, disk, saved, origin>>
    /\ IF valid
       THEN /\ samples' = SetColor(samples, sample_name, color_hex)
            /\ last' = Done("change_sample_color", "ok", sample_name)
       ELSE UNCHANGED <<samples, last>>

-----------------------------------------------------------------------------
(* The interactive session: one handler at a time, each run to completion. *)
(* A cancelled dialog returns from the handler with nothing changed.       *)

\* A session in which the save dialog is cancelled or the write fails.
Next ==
    \/ \E inp \in FactorFiles : load_factors(inp)
    \/ \E i \in 1..Len(sliders), v \in SliderInputs : slider_setValue(i, v)
    \/ \E name \in NameInputs(MaxSamples) \cup {""} : add_sample(name)
    \/ \E n \in SampleNames(samples) \cup {""} : save_sample(n, FALSE)
    \/ \E inp \in SampleFileInputs(AllDocs, NameInputs(MaxSamples)) : load_sample(inp)
    \/ \E n \in SampleNames(samples), ok \in BOOLEAN, c \in DialogColors :
            change_sample_color(n, ok, c)

Spec == Init /\ [][Next]_vars

\* A session that saves samples and loads them back; the sliders stay at 5 and
\* a factor file is no longer than the number of factor names.
NextSave ==
    \/ \E inp \in FactorFilesSave : load_factors(inp)
    \/ \E name \in NameInputs(MaxSamples) \cup {""} : add_sample(name)
    \/ \E n \in SampleNames(samples) \cup {""}, w \in BOOLEAN : save_sample(n, w)
    \/ \E inp \in SampleFileInputs(AllDocs, NameInputs(MaxSamples)) : load_sample(inp)
    \/ \E n \in SampleNames(samples), ok \in BOOLEAN, c \in DialogColors :
            change_sample_color(n, ok, c)

SpecSave == Init /\ [][NextSave]_vars

\* A session on one factor that creates up to CycleLen samples.
NextCycle ==
    \/ \E inp \in FactorFilesCycle : load_factors(inp)
    \/ \E name \in NameInputs(CycleLen) \cup {""} : add_sample(name)
    \/ \E inp \in SampleFileInputs(CycleDocs, NameInputs(CycleLen)) : load_sample(inp)
    \/ \E n \in SampleNames(samples), ok \in BOOLEAN, c \in DialogColors :
            change_sample_color(n, ok, c)

SpecCycle == Init /\ [][NextCycle]_vars

-----------------------------------------------------------------------------
(* Properties *)

TypeOK ==
    /\ Len(origin) = Len(samples)
    /\ Len(sliders) = Len(factors)
    /\ Len(disk) = Len(saved)

LastIs(op, res) == last.op = op /\ last.res = res

FactorNameSet == {factors[i].name : i \in 1..Len(factors)}

UniqueNames(s) == \A i, j \in 1..Len(s) : s[i].name = s[j].name => i = j

\* C1: add_sample and load_sample given a name that is already in the store
\* leave the store exactly as it was, and no two stored samples share a name.
\* (Stated from the other side: a step of add_sample or load_sample that changes
\* the store was not given a name the store already held.)
C1_DuplicateRejected ==
    [][/\ (samples' # samples /\ last'.op = "add_sample") =>
            \A n \in SampleNames(samples) : ~add_sample(n)
       /\ (samples' # samples /\ last'.op = "load_sample") =>
            \A inp \in SampleFileInputs(AllDocs, SampleNames(samples)) :
                  ~(/\ inp.kind = "json"
                    /\ "name" \in DOMAIN inp.data
                    /\ inp.data.name \in SampleNames(samples)
                    /\ load_sample(inp))
       /\ UniqueNames(samples')]_vars

C1_Witness ==
    /\ LastIs("add_sample", "duplicate")
    /\ Len(samples) = MaxSamples
    /\ \A i \in 1..Len(samples) : samples[i].values # SliderValues

\* C2: right after a successful load_factors the store is empty, and no step
\* that changes the factor list leaves a sample in the store.
C2_ResetOnLoad ==
    /\ [](LastIs("load_factors", "ok") => samples = <<>>)
    /\ [][factors' # factors => samples' = <<>>]_vars

C2_Witness ==
    /\ LastIs("load_factors", "ok")
    /\ last.had = MaxSamples
    /\ factors # <<>>
    /\ samples = <<>>

\* C3: every stored score vector is as long as the factor list, and its score at
\* position i is the score given for the factor at position i.
C3_ScoresAligned ==
    \A i \in 1..Len(samples) :
        /\ Len(samples[i].values) = Len(factors)
        /\ \A j \in 1..Len(factors) : samples[i].values[j] = origin[i].given[j]

\* C4: every score of every stored sample is an integer in 1..10.
C4_ScoresInRange ==
    \A i \in 1..Len(samples) : \A j \in 1..Len(samples[i].values) :
        samples[i].values[j] \in 1..10

\* C5: a non-empty store implies that at least one factor is loaded.
C5_NoSampleWithoutFactors == samples # <<>> => Len(factors) >= 1

\* C6: the names of the active factor list are pairwise distinct and non-empty.
C6_FactorNamesDistinct ==
    \A i, j \in 1..Len(factors) :
        /\ factors[i].name # ""
        /\ factors[i].name = factors[j].name => i = j

\* C7: load_factors on a file with a record lacking 'name' or 'description', and
\* load_sample on a file lacking name, values or color or whose values keys are
\* not exactly the active factor names, leave the factor list and the store
\* as they were.  (Stated from the other side: a step of load_factors or
\* load_sample that changes either was not given such a file.)
C7_RejectedLoadKeepsState ==
    [][/\ ((factors' # factors \/ samples' # samples) /\ last'.op = "load_factors") =>
            \A inp \in FactorFiles :
                ~(/\ inp.kind = "json"
                  /\ \E i \in 1..Len(inp.data) :
                        ~({"name", "description"} \subseteq DOMAIN inp.data[i])
                  /\ load_factors(inp))
       /\ ((factors' # factors \/ samples' # samples) /\ last'.op = "load_sample") =>
            \A inp \in SampleFileInputs(AllDocs, NameInputs(MaxSamples)) :
                ~(/\ inp.kind = "json"
                  /\ \/ ~({"name", "values", "color"} \subseteq DOMAIN inp.data)
                     \/ DOMAIN inp.data.values # FactorNameSet
                  /\ load_sample(inp))]_vars

C7_Witness ==
    /\ LastIs("load_sample", "error")
    /\ Len(factors) = 1
    /\ samples # <<>>

AddedCount == Cardinality({i \in 1..Len(origin) : origin[i].by = "add_sample"})

\* C8 as stated: the sample add_sample creates gets palette[n mod 6], n counting
\* only the samples add_sample created before it since the last load_factors.
C8_NthAddedColor ==
    LastIs("add_sample", "ok") =>
        samples[Len(samples)].color =
            default_colors[((AddedCount - 1) % Len(default_colors)) + 1]

\* C8 amended: the sample add_sample creates gets palette[n mod 6], n being the
\* number of samples in the store just before, loaded ones included, whatever
\* colors the earlier samples have by now.
C8_ColorByStoreSize ==
    LastIs("add_sample", "ok") =>
        /\ last.had = Len(samples) - 1
        /\ samples[Len(samples)].color =
              default_colors[(last.had % Len(default_colors)) + 1]

C8_Witness ==
    /\ LastIs("add_sample", "ok")
    /\ Len(samples) = Len(default_colors) + 1
    /\ samples[Len(samples)].color = default_colors[1]
    /\ \E i \in 1..Len(samples) - 1 : origin[i].by = "load_sample"
    /\ \E i \in 1..Len(samples) - 1 :
          origin[i].by = "add_sample" /\ samples[i].color \in DialogColors

Count(f, r) == Cardinality({i \in 1..Len(f) : f[i] = r})

IsReordering(f, g) ==
    /\ Len(f) = Len(g)
    /\ \A i \in 1..Len(f) : Count(f, f[i]) = Count(g, f[i])

\* C9: loading the file save_sample wrote, under the factor list it was saved
\* under or a reordering of it and with the name unused, appends a sample with
\* the saved name and color and, for every factor name, the saved score.
C9_RoundTrip ==
    [][(/\ disk # <<>>
        /\ IsReordering(factors, saved[1].factors)
        /\ disk[1].name \notin SampleNames(samples)
        /\ load_sample([kind |-> "json", data |-> disk[1]]))
       => /\ Len(samples') = Len(samples) + 1
          /\ LET new == samples'[Len(samples')]
                 old == saved[1]
             IN  /\ new.name = old.sample.name
                 /\ new.color = old.sample.color
                 /\ Len(new.values) = Len(factors)
                 /\ \A i, j \in 1..Len(factors) :
                       factors[i].name = old.factors[j].name
                           => new.values[i] = old.sample.values[j]
                 /\ factors = old.factors => new.values = old.sample.values]_vars

\* C10: a step other than a successful load_factors keeps every stored sample
\* in place with its name and scores; a color changes only for the sample
\* named in a change_sample_color call.
C10_SamplesPersist ==
    [][~(last'.op = "load_factors" /\ last'.res = "ok") =>
          /\ Len(samples') >= Len(samples)
          /\ \A i \in 1..Len(samples) :
                /\ samples'[i].name = samples[i].name
                /\ samples'[i].values = samples[i].values
                /\ samples'[i].color # samples[i].color =>
                      /\ last'.op = "change_sample_color"
                      /\ last'.arg = samples[i].name]_vars

C10_Witness ==
    /\ LastIs("change_sample_color", "ok")
    /\ disk # <<>>
    /\ Len(samples) = MaxSamples
    /\ \E i \in 1..Len(samples) :
          samples[i].name # last.arg /\ samples[i].color \notin DialogColors
====
